---- MODULE Spec2Model ----
(***************************************************************************)
(* Model of dmlib/zpanel.py: the Zernike control window of a deformable    *)
(* mirror (ZernikePanel, ZernikeWindow, load_settings,                     *)
(* new_zernike_window).                                                    *)
(*                                                                         *)
(* Numbers: every coefficient, amplitude and spinbox value is a fixed      *)
(* point integer in units of 0.001 rad (One = 1.0).  A QDoubleSpinBox      *)
(* keeps two decimals, so its values are multiples of SpinStep.            *)
(* Indices: the code's row / mode index i (0-based) is i + 1 here.         *)
(***************************************************************************)
EXTENDS Integers, Sequences, FiniteSets, TLC

\* ------------------------------------------------------------------ bounds
NK == 2          \* rzern.nk, the number of Zernike modes of the calibration
NU == 1          \* number of actuators of the DM (size of control.u)
MaxSteps == 4    \* events handled after the construction that are followed

\* --------------------------------------------------------- program numbers
fto100mul == 100
One == 1000
SpinStep == 10
DefaultShown == 21
DefaultAmp == 8 * One
AmpBottom == One \div 2

Modes == 1..NK
Acts == 1..NU

\* ------------------------------------------------------------------ inputs
\* results of control.u2z() and coefficient lists found in a settings file
ZVecIn == {[i \in Modes |-> 156], [i \in Modes |-> IF i = NK THEN -9 * One ELSE 0]}
SettingsZIn == {<<>>, <<One>>, [i \in 1..(NK + 1) |-> IF i = NK THEN -9 * One ELSE One]}
ShownIn == {0, 1, DefaultShown}
FlatIn == {0, 2}
\* values typed into a spinbox, slider positions, amplitudes typed by the user
SpinIn == {One}
SliderIn == {51}
AmpIn == {AmpBottom, 9 * One}
\* actuator values (range [-1, 1]) and actuator vectors
UIn == {0, One}
UVec == [Acts -> UIn]
\* texts typed into the 'shown modes' field
TextIn == {ToString(n) : n \in 0..(NK + 1)} \cup {"abc"}
\* file names: what the dialogs return ("" = cancelled) and the command line
NoFile == "None"
DialogIn == {"", "user.h5", "other.h5"}
ParamIn == {"--calibration", "--settings"}
FileIn == {"user.json"}
ArgCalibIn == {NoFile, "arg.h5", "arg2.h5"}
SetCalibIn == {NoFile, "stored.h5", "stored2.h5"}

\* ------------------------------------------------------------- arithmetic
Abs(x) == IF x < 0 THEN -x ELSE x
Max(a, b) == IF a >= b THEN a ELSE b
Min(a, b) == IF a <= b THEN a ELSE b

\* Python int(a / b) for b > 0: truncation towards zero
TruncDiv(a, b) == IF a >= 0 THEN a \div b ELSE -((-a) \div b)

\* a / b rounded to the nearest integer, halves away from zero (b > 0)
RoundDiv(a, b) == IF a >= 0 THEN (2 * a + b) \div (2 * b)
                            ELSE -((2 * (-a) + b) \div (2 * b))

\* np.ceil of a non-negative value
Ceil(x) == ((x + One - 1) \div One) * One

Clamp(x, lo, hi) == IF x < lo THEN lo ELSE IF x > hi THEN hi ELSE x

\* int((f + maxrad)/(2*maxrad)*fto100mul)
fto100(f, amp) == TruncDiv((f + amp) * fto100mul, 2 * amp)

\* QSlider.setValue with minimum 0 and maximum fto100mul
SliderSet(v) == Clamp(v, 0, fto100mul)

\* QDoubleSpinBox.setValue: two decimals, then the range set by setRange
SpinSet(x, amp) == Clamp(RoundDiv(x, SpinStep) * SpinStep, -amp, amp)

\* the value hand_slider hands to the spinbox: t/fto100mul*(2*maxrad) - maxrad,
\* as the spinbox rounds it
SliderValue(t, amp) ==
    Clamp(RoundDiv(t * 2 * amp - fto100mul * amp, fto100mul * SpinStep) * SpinStep,
          -amp, amp)

\* str() / int() of the 'shown modes' field
IsIntText(txt) == \E n \in -1..(DefaultShown + NK + 2) : ToString(n) = txt
IntOf(txt) == CHOOSE n \in -1..(DefaultShown + NK + 2) : ToString(n) = txt

\* ------------------------------------------------------------------ state
VARIABLES
    pc,            \* "start", "run", "fdialog", "adialog", "quit", "exit", "hung",
                   \* "crashed", "spawned"
    dialog,        \* the modal dialog that is open: <<>>, <<param>> or <<ind>>
    argcal,        \* args.dm_calibration
    chosen,        \* what the 'Select a calibration' dialog returned ("-": not shown)
    queried,       \* the file handed to query_calibration ("-": not called)
    setcal,        \* settings['calibration']
    z,             \* ZernikePanel.z
    nmodes,        \* ZernikePanel.nmodes
    zernike_rows,  \* ZernikePanel.zernike_rows: [slider, spinbox, amp] per row
    lezm,          \* text of the 'shown modes' field
    phi,           \* what the phase display was last drawn from
    u,             \* control.u
    flat_on,       \* control.flat_on
    written,       \* the vector last handed to control.write
    can_close,     \* ZernikeWindow.can_close
    enabled,       \* the window's enabled flag
    mutex,         \* ZernikeWindow.mutex is locked
    acquired,      \* an acquire has been handled and its release has not
    file,          \* content of ~/.zpanel.json written by this run (<<>>: none)
    dm_open,       \* control.dm has not been closed
    spawned,       \* arguments of the process started by a file-load button
    ev,            \* the handler that ran last
    arg,           \* its inputs
    wcount,        \* how often it invoked control.write
    changed,       \* whether it changed the value it edits
    glob,          \* the module global 'control' is bound (run as a script)
    steps          \* events handled since the construction

vars == <<pc, dialog, argcal, chosen, queried, setcal, z, nmodes, zernike_rows,
          lezm, phi, u, flat_on, written, can_close, enabled, mutex,
          acquired, file, dm_open, spawned, ev, arg, wcount, changed, glob, steps>>

\* ------------------------------------------------------------ ZernikePanel
\* The panel as a value: the fields a handler reads and assigns, with the
\* vector last handed to the callback and the number of callback calls.
Panel == [z |-> z, nmodes |-> nmodes, rows |-> zernike_rows, lezm |-> lezm,
          phi |-> phi, written |-> written, wcount |-> 0]

\* save_settings without line 79: 'shown_modes' keeps the class default
PanelSave_stale(p) == [z |-> p.z, shown_modes |-> DefaultShown]

\* ZernikePanel.save_settings: d['z'], d['shown_modes']
PanelSave(p) == [z |-> p.z, shown_modes |-> Len(p.rows)]

\* ZernikePanel.update_gui: redraw the phase, then callback(self.z)
update_gui(p, run_callback) ==
    [p EXCEPT !.phi = p.z,
              !.written = IF run_callback THEN p.z ELSE @,
              !.wcount = IF run_callback THEN @ + 1 ELSE @]

\* update_controls comparing the amplitude with z[i] instead of abs(z[i])
UpdateControlsRow_noabs(row, zi) ==
    LET amp1 == IF row.amp < zi THEN Ceil(zi) ELSE row.amp
    IN  [amp |-> amp1,
         spinbox |-> SpinSet(zi, amp1),
         slider |-> SliderSet(fto100(zi, amp1))]

\* one iteration of the loop of ZernikePanel.update_controls
UpdateControlsRow(row, zi) ==
    LET oldamp == Abs(row.amp)
        newamp == Abs(zi)
        amp1 == IF oldamp < newamp THEN Ceil(newamp) ELSE row.amp
    IN  [amp |-> amp1,
         spinbox |-> SpinSet(zi, amp1),
         slider |-> SliderSet(fto100(zi, amp1))]

\* ZernikePanel.update_controls
update_controls(p) ==
    [p EXCEPT !.rows = [i \in 1..Len(p.rows) |-> UpdateControlsRow(p.rows[i], p.z[i])]]

\* the row update_zernike_rows creates for a coefficient zi
NewRow(zi) ==
    LET maxamp == Max(DefaultAmp, zi)
    IN  [amp |-> maxamp,
         spinbox |-> SpinSet(zi, maxamp),
         slider |-> SliderSet(fto100(zi, maxamp))]

\* update_zernike_rows: append rows up to nmodes, or pop rows down to it
update_zernike_rows(p) ==
    LET n == Len(p.rows)
        mynk == p.nmodes
    IN  IF n < mynk
        THEN [p EXCEPT !.rows = [i \in 1..mynk |-> IF i <= n THEN p.rows[i]
                                                             ELSE NewRow(p.z[i])]]
        ELSE IF n > mynk
        THEN [p EXCEPT !.rows = SubSeq(p.rows, 1, mynk)]
        ELSE p

\* hand_spinbox (valueChanged of the spinbox of row i, new value r)
hand_spinbox(p, i, r) ==
    update_gui([p EXCEPT !.rows[i].slider = SliderSet(fto100(r, p.rows[i].amp)),
                         !.z[i] = r], TRUE)

\* QDoubleSpinBox.setValue(v) on row i: valueChanged fires only on a change
SpinboxSetValue(p, i, v) ==
    LET r == SpinSet(v, p.rows[i].amp)
    IN  IF r = p.rows[i].spinbox THEN p
        ELSE hand_spinbox([p EXCEPT !.rows[i].spinbox = r], i, r)

\* hand_slider (valueChanged of the slider of row i, new position t)
hand_slider(p, i, t) ==
    LET amp == p.rows[i].amp
        r == SliderValue(t, amp)
    IN  IF r = p.rows[i].spinbox THEN p
        ELSE hand_spinbox([p EXCEPT !.rows[i].spinbox = r], i, r)

\* QSlider.setValue(v) on row i with signals not blocked
SliderSetValue(p, i, v) ==
    LET t == SliderSet(v)
    IN  IF t = p.rows[i].slider THEN p
        ELSE hand_slider([p EXCEPT !.rows[i].slider = t], i, t)

\* hand_amp (editingFinished of the amplitude field of row i, text a)
hand_amp(p, i, a) ==
    LET p1 == [p EXCEPT !.rows[i].amp = a]
        \* spinbox.setRange(-amp, amp) bounds the value
        p2 == SpinboxSetValue(p1, i, p1.rows[i].spinbox)
    IN  SliderSetValue(p2, i, fto100(p2.z[i], a))

\* reset_fun
reset_fun(p) ==
    update_gui(update_controls([p EXCEPT !.z = [i \in Modes |-> 0]]), TRUE)

\* change_nmodes
change_nmodes(p) ==
    IF ~IsIntText(p.lezm) \/ ~(IntOf(p.lezm) > 0) \/ ~(IntOf(p.lezm) <= NK)
    THEN [p EXCEPT !.lezm = ToString(p.nmodes)]
    ELSE IF IntOf(p.lezm) # p.nmodes
         THEN LET p1 == update_gui(update_zernike_rows(
                            [p EXCEPT !.nmodes = IntOf(p.lezm)]), TRUE)
              IN  [p1 EXCEPT !.lezm = ToString(p1.nmodes)]
         ELSE p

\* ZernikePanel.__init__ with settings st = [z, shown_modes]
PanelInit(st) ==
    LET nm == Min(st.shown_modes, NK)
        min1 == Min(NK, Len(st.z))
        z0 == [i \in Modes |-> IF i <= min1 THEN st.z[i] ELSE 0]
        p0 == [z |-> z0, nmodes |-> nm, rows |-> <<>>, lezm |-> ToString(nm),
               phi |-> z0,
               written |-> <<>>, wcount |-> 0]
    IN  update_zernike_rows(p0)

\* ----------------------------------------------------------- ZernikeWindow
\* the variables of the panel take the fields of the panel value q
SetPanel(q) ==
    /\ z' = q.z
    /\ nmodes' = q.nmodes
    /\ zernike_rows' = q.rows
    /\ lezm' = q.lezm
    /\ phi' = q.phi
    /\ written' = q.written
    /\ wcount' = q.wcount

\* control.u is either a vector handed over by another owner of the control
\* or what control.write computed from the vector zv it was given while
\* flat_on was fl; the computation itself (z2u, clipping) is the library's
UGiven(uv) == [src |-> "given", vec |-> uv, z |-> <<>>, flat_on |-> 0]
UWritten(zv, fl) == [src |-> "write", vec |-> <<>>, z |-> zv, flat_on |-> fl]

\* write_fun ran q.wcount times, last with q.written
ControlWrote(q) ==
    u' = IF q.wcount > 0 THEN UWritten(q.written, flat_on) ELSE u

\* ZernikeWindow.save_settings
save_settings ==
    [ZernikePanel |-> PanelSave(Panel), flat_on |-> flat_on, calibration |-> setcal]

Ran(name, a, ch) == ev' = name /\ arg' = a /\ changed' = ch /\ steps' = steps + 1

startVars == <<argcal, chosen, queried, setcal, glob>>
winVars == <<can_close, enabled, mutex, acquired, file, dm_open, spawned, pc, dialog>>

\* ZernikeWindow.__init__ with the panel settings st and flat_on fl: the
\* fields it leaves; it ends with write_fun(self.zpanel.z)
WindowInit(st, fl) ==
    LET q == PanelInit(st)
    IN  [z |-> q.z, nmodes |-> q.nmodes, rows |-> q.rows, lezm |-> q.lezm,
         phi |-> q.phi, written |-> q.z, wcount |-> 1, u |-> UWritten(q.z, fl),
         flat_on |-> fl,
         can_close |-> TRUE, enabled |-> TRUE, mutex |-> FALSE]

\* the state before a window exists, and the one a window w starts in
NoWindow ==
    [z |-> [i \in Modes |-> 0], nmodes |-> 1, rows |-> <<>>, lezm |-> "",
     phi |-> [i \in Modes |-> 0], written |-> <<>>, wcount |-> 0,
     u |-> UGiven([a \in Acts |-> 0]), flat_on |-> 0,
     can_close |-> TRUE, enabled |-> FALSE, mutex |-> FALSE]

\* load_settings: the calibration it queries and whether it goes on.
\* ac: args.dm_calibration, sc: the stored settings['calibration'],
\* d: what the dialog returns if shown, ok: query_calibration does not raise
load_settings(ac, sc, d, ok) ==
    LET s1 == IF ac # NoFile THEN ac ELSE sc
        ask == s1 = NoFile
    IN  IF ask /\ d = ""
        THEN [chosen |-> d, queried |-> "-", calibration |-> s1, go |-> FALSE]
        ELSE LET s2 == IF ask THEN d ELSE s1
             IN  [chosen |-> IF ask THEN d ELSE "-", queried |-> s2,
                  calibration |-> s2, go |-> ok]

\* new_zernike_window up to the construction of the window; query_calibration
\* raises when it is handed None
new_zernike_window(ac, d, ok) ==
    LET ask == ac = NoFile
    IN  IF ask /\ d = ""
        THEN [chosen |-> d, queried |-> "-", calibration |-> NoFile, go |-> FALSE]
        ELSE LET fileName == ac
             IN  [chosen |-> IF ask THEN d ELSE "-", queried |-> fileName,
                  calibration |-> fileName, go |-> ok /\ fileName # NoFile]

\* the program starts: r is what load_settings or new_zernike_window computed,
\* w the window then constructed, g whether the module global 'control' is bound
Started(name, ac, r, w, g) ==
    /\ argcal' = ac
    /\ glob' = g
    /\ chosen' = r.chosen
    /\ queried' = r.queried
    /\ setcal' = r.calibration
    /\ LET s == IF r.go THEN w ELSE NoWindow
       IN  /\ z' = s.z
           /\ nmodes' = s.nmodes
           /\ zernike_rows' = s.rows
           /\ lezm' = s.lezm
           /\ phi' = s.phi
           /\ written' = s.written
           /\ wcount' = s.wcount
           /\ u' = s.u
           /\ flat_on' = s.flat_on
           /\ can_close' = s.can_close
           /\ enabled' = s.enabled
           /\ mutex' = s.mutex
    /\ pc' = IF r.go THEN "run" ELSE "exit"
    /\ Ran(name, <<>>, FALSE)
    /\ UNCHANGED <<acquired, file, dm_open, spawned, dialog>>

\* the script: load_settings, then ZernikeWindow(app, control, settings)
LoadSettings(ac, sc, st, fl, d, ok) ==
    /\ pc = "start"
    /\ Started("load_settings", ac, load_settings(ac, sc, d, ok), WindowInit(st, fl), TRUE)

\* new_zernike_window: its settings hold the calibration only
NewZernikeWindow(ac, d, ok, fl) ==
    /\ pc = "start"
    /\ Started("new_zernike_window", ac, new_zernike_window(ac, d, ok),
               WindowInit([z |-> <<>>, shown_modes |-> DefaultShown], fl), FALSE)

\* --------------------------------------------------------------- handlers
\* a widget of the window delivers user input: the window is enabled and no
\* modal dialog is open
Usable == pc = "run" /\ enabled /\ steps < MaxSteps

\* a handler of the panel ran and left the panel value q
PanelHandler(q) ==
    /\ SetPanel(q)
    /\ ControlWrote(q)
    /\ UNCHANGED <<flat_on, winVars, startVars>>

\* the user sets the spinbox of row i to r
HandSpinbox(i, r) ==
    /\ Usable
    /\ i \in 1..Len(zernike_rows)
    /\ Abs(r) <= zernike_rows[i].amp
    /\ r # zernike_rows[i].spinbox
    /\ PanelHandler(hand_spinbox([Panel EXCEPT !.rows[i].spinbox = r], i, r))
    /\ Ran("hand_spinbox", <<i>>, TRUE)

\* the user moves the slider of row i to t
HandSlider(i, t) ==
    /\ Usable
    /\ i \in 1..Len(zernike_rows)
    /\ t # zernike_rows[i].slider
    /\ LET q == hand_slider([Panel EXCEPT !.rows[i].slider = t], i, t)
       IN  /\ PanelHandler(q)
           /\ Ran("hand_slider", <<i>>, q.rows[i].spinbox # zernike_rows[i].spinbox)

\* the user finishes editing the amplitude of row i with the text a
HandAmp(i, a) ==
    /\ Usable
    /\ i \in 1..Len(zernike_rows)
    /\ LET q == hand_amp(Panel, i, a)
       IN  /\ PanelHandler(q)
           /\ Ran("hand_amp", <<i>>, q.rows[i].spinbox # zernike_rows[i].spinbox)

\* the reset button
ResetFun ==
    /\ Usable
    /\ PanelHandler(reset_fun(Panel))
    /\ Ran("reset_fun", <<>>, TRUE)

\* the user finishes editing the 'shown modes' field with the text txt
ChangeNmodes(txt) ==
    /\ Usable
    /\ LET q == change_nmodes([Panel EXCEPT !.lezm = txt])
       IN  /\ PanelHandler(q)
           /\ Ran("change_nmodes", <<txt>>, q.nmodes # nmodes)

\* f5: the user toggles the 'flat' checkbox; stateChanged carries 0 or 2.
\* The handler reads the module global 'control'; where it is not bound the
\* slot raises NameError, which ends the application.
F5 ==
    /\ Usable
    /\ IF glob
       THEN /\ flat_on' = (IF flat_on # 0 THEN 0 ELSE 2)
            /\ written' = z
            /\ wcount' = 1
            /\ u' = UWritten(z, flat_on')
            /\ pc' = pc
       ELSE /\ pc' = "crashed"
            /\ wcount' = 0
            /\ UNCHANGED <<flat_on, written, u>>
    /\ Ran("f5", <<>>, glob)
    /\ UNCHANGED <<z, nmodes, zernike_rows, lezm, phi, can_close, enabled,
                   mutex, acquired, file, dm_open, spawned, dialog, startVars>>

\* make_select_cb.f up to the input dialog: a click in the actuator plot,
\* ind = 0 standing for a click that hits no actuator
SelectCb(ind) ==
    /\ Usable
    /\ IF mutex
       THEN pc' = "hung" /\ UNCHANGED <<mutex, dialog>>
       ELSE IF ind \in Acts
       THEN pc' = "adialog" /\ mutex' = TRUE /\ dialog' = <<ind>>
       ELSE UNCHANGED <<pc, mutex, dialog>>
    /\ wcount' = 0
    /\ Ran("select_cb", <<ind>>, FALSE)
    /\ UNCHANGED <<z, nmodes, zernike_rows, lezm, phi, u, flat_on, written,
                   can_close, enabled, acquired, file, dm_open, spawned, startVars>>

\* make_select_cb.f after the dialog was accepted with val; zn = control.u2z()
SelectOk(val, zn) ==
    /\ pc = "adialog"
    /\ steps < MaxSteps
    /\ z' = zn
    /\ written' = zn
    /\ wcount' = 1
    /\ u' = UWritten(zn, flat_on)
    /\ mutex' = FALSE
    /\ pc' = "run"
    /\ dialog' = <<>>
    /\ Ran("select_ok", <<zn>>, TRUE)
    /\ UNCHANGED <<nmodes, zernike_rows, lezm, phi, flat_on, can_close,
                   enabled, acquired, file, dm_open, spawned, startVars>>

\* make_select_cb.f after the dialog was cancelled
SelectCancel ==
    /\ pc = "adialog"
    /\ steps < MaxSteps
    /\ mutex' = FALSE
    /\ pc' = "run"
    /\ dialog' = <<>>
    /\ wcount' = 0
    /\ Ran("select_cancel", <<>>, FALSE)
    /\ UNCHANGED <<z, nmodes, zernike_rows, lezm, phi, u, flat_on, written,
                   can_close, enabled, acquired, file, dm_open, spawned, startVars>>

panelVars == <<z, nmodes, zernike_rows, lezm, phi, written>>

\* add_lower.f3 up to the file dialog (param: "--calibration" or "--settings")
F3Open(param) ==
    /\ Usable
    /\ enabled' = FALSE
    /\ pc' = "fdialog"
    /\ dialog' = <<param>>
    /\ wcount' = 0
    /\ Ran("f3", <<param>>, FALSE)
    /\ UNCHANGED <<panelVars, u, flat_on, can_close, mutex, acquired, file, dm_open,
                   spawned, startVars>>

\* add_lower.f3 after the file dialog was cancelled
F3Cancel ==
    /\ pc = "fdialog"
    /\ steps < MaxSteps
    /\ enabled' = TRUE
    /\ pc' = "run"
    /\ dialog' = <<>>
    /\ wcount' = 0
    /\ Ran("f3_cancel", <<>>, FALSE)
    /\ UNCHANGED <<panelVars, u, flat_on, can_close, mutex, acquired, file, dm_open,
                   spawned, startVars>>

\* closeEvent without the test of can_close
closeEvent_always == [file |-> save_settings, quit |-> TRUE]

\* ZernikeWindow.closeEvent: the file it writes and whether it quits
closeEvent ==
    IF can_close THEN [file |-> save_settings, quit |-> TRUE]
                 ELSE [file |-> file, quit |-> FALSE]

\* add_lower.f3 after a file was chosen: self.close(), control.dm.close(),
\* Popen; 'control' is the module global.  Where the close request was
\* ignored the process goes on with a closed DM beside the one it started;
\* nothing of it is followed further ("spawned").
F3Choose(fileName) ==
    /\ pc = "fdialog"
    /\ steps < MaxSteps
    /\ fileName # ""
    /\ file' = closeEvent.file
    /\ IF glob
       THEN /\ dm_open' = FALSE
            /\ spawned' = <<dialog[1], fileName>>
            /\ pc' = IF closeEvent.quit THEN "quit" ELSE "spawned"
       ELSE /\ pc' = "crashed"
            /\ UNCHANGED <<dm_open, spawned>>
    /\ dialog' = <<>>
    /\ wcount' = 0
    /\ Ran("f3_choose", <<fileName>>, FALSE)
    /\ UNCHANGED <<panelVars, u, flat_on, can_close, enabled, mutex, acquired,
                   startVars>>

\* a close request reaches the window (window manager, Ctrl+Q)
CloseEvent ==
    /\ pc = "run"
    /\ steps < MaxSteps
    /\ file' = closeEvent.file
    /\ pc' = IF closeEvent.quit THEN "quit" ELSE pc
    /\ wcount' = 0
    /\ Ran("closeEvent", <<>>, FALSE)
    /\ UNCHANGED <<panelVars, u, flat_on, can_close, enabled, mutex, acquired,
                   dm_open, spawned, dialog, startVars>>

\* the event loop runs while the window or one of its modal dialogs is shown
Looping == pc \in {"run", "fdialog", "adialog"} /\ steps < MaxSteps

\* make_acquire_hand.f, the slot of sig_acquire, for an acquire that follows
\* the release of the one before; QMutex is not recursive, so locking it again
\* in the GUI thread never returns
AcquireHand ==
    /\ Looping
    /\ ~acquired
    /\ IF mutex
       THEN pc' = "hung" /\ UNCHANGED <<mutex, enabled, can_close, acquired>>
       ELSE /\ mutex' = TRUE
            /\ enabled' = FALSE
            /\ can_close' = FALSE
            /\ acquired' = TRUE
            /\ pc' = pc
    /\ wcount' = 0
    /\ Ran("acquire", <<>>, FALSE)
    /\ UNCHANGED <<panelVars, u, flat_on, file, dm_open, spawned, dialog, startVars>>

\* make_release_hand.f, the slot of sig_release, for the release that matches
\* the acquire; tu = t[0].u, zn = control.u2z()
ReleaseHand(tu, zn) ==
    /\ Looping
    /\ acquired
    /\ u' = UGiven(tu)
    /\ SetPanel(update_gui(update_controls([Panel EXCEPT !.z = zn]), FALSE))
    /\ can_close' = TRUE
    /\ enabled' = TRUE
    /\ mutex' = FALSE
    /\ acquired' = FALSE
    /\ Ran("release", <<tu, zn>>, TRUE)
    /\ UNCHANGED <<flat_on, file, dm_open, spawned, pc, dialog, startVars>>

\* ------------------------------------------------------------ specification
\* the window w has been constructed with settings['calibration'] = cal
Constructed(w, cal, g) ==
    /\ pc = "run"
    /\ dialog = <<>>
    /\ argcal = cal
    /\ chosen = "-"
    /\ queried = cal
    /\ setcal = cal
    /\ z = w.z
    /\ nmodes = w.nmodes
    /\ zernike_rows = w.rows
    /\ lezm = w.lezm
    /\ phi = w.phi
    /\ u = w.u
    /\ flat_on = w.flat_on
    /\ written = w.written
    /\ can_close = w.can_close
    /\ enabled = w.enabled
    /\ mutex = w.mutex
    /\ acquired = FALSE
    /\ file = <<>>
    /\ dm_open = TRUE
    /\ spawned = <<>>
    /\ ev = "__init__"
    /\ arg = <<>>
    /\ wcount = w.wcount
    /\ changed = FALSE
    /\ glob = g
    /\ steps = 0

\* Spec: the window after its construction, by the script with any settings
\* or by new_zernike_window
Init ==
    \E fl \in FlatIn :
        \/ \E zs \in SettingsZIn, sm \in ShownIn :
               Constructed(WindowInit([z |-> zs, shown_modes |-> sm], fl), "arg.h5", TRUE)
        \/ Constructed(WindowInit([z |-> <<>>, shown_modes |-> DefaultShown], fl),
                       "arg.h5", FALSE)

Next ==
    \/ \E i \in Modes, r \in SpinIn : HandSpinbox(i, r)
    \/ \E i \in Modes, t \in SliderIn : HandSlider(i, t)
    \/ \E i \in Modes, a \in AmpIn : HandAmp(i, a)
    \/ ResetFun
    \/ \E txt \in TextIn : ChangeNmodes(txt)
    \/ F5
    \/ \E ind \in 0..NU : SelectCb(ind)
    \/ \E val \in UIn, zn \in ZVecIn : SelectOk(val, zn)
    \/ SelectCancel
    \/ \E param \in ParamIn : F3Open(param)
    \/ F3Cancel
    \/ \E fileName \in FileIn : F3Choose(fileName)
    \/ CloseEvent
    \/ AcquireHand
    \/ \E tu \in UVec, zn \in ZVecIn : ReleaseHand(tu, zn)

Spec == Init /\ [][Next]_vars

\* SpecStart: the start of the program up to the constructed window
InitStart ==
    /\ pc = "start"
    /\ dialog = <<>>
    /\ argcal = NoFile
    /\ chosen = "-"
    /\ queried = "-"
    /\ setcal = NoFile
    /\ z = NoWindow.z
    /\ nmodes = NoWindow.nmodes
    /\ zernike_rows = NoWindow.rows
    /\ lezm = NoWindow.lezm
    /\ phi = NoWindow.phi
    /\ u = NoWindow.u
    /\ flat_on = NoWindow.flat_on
    /\ written = NoWindow.written
    /\ can_close = NoWindow.can_close
    /\ enabled = NoWindow.enabled
    /\ mutex = NoWindow.mutex
    /\ acquired = FALSE
    /\ file = <<>>
    /\ dm_open = TRUE
    /\ spawned = <<>>
    /\ ev = "start"
    /\ arg = <<>>
    /\ wcount = 0
    /\ changed = FALSE
    /\ glob = FALSE
    /\ steps = 0

NextStart ==
    \/ \E ac \in ArgCalibIn, sc \in SetCalibIn, zs \in SettingsZIn, sm \in ShownIn,
          fl \in FlatIn, d \in DialogIn, ok \in BOOLEAN :
          LoadSettings(ac, sc, [z |-> zs, shown_modes |-> sm], fl, d, ok)
    \/ \E ac \in ArgCalibIn, d \in DialogIn, ok \in BOOLEAN, fl \in FlatIn :
          NewZernikeWindow(ac, d, ok, fl)

SpecStart == InitStart /\ [][NextStart]_vars

\* ------------------------------------------------------------------ claims
Shown == 1..Len(zernike_rows)
Zero == [i \in Modes |-> 0]

\* C1: every edit made through the window (spinbox change, slider move,
\* reset, change of the number of shown modes, flat toggle, accepted actuator
\* dialog) invokes control.write at least once, and after the handler the
\* vector last written is the current z.
C1_EveryEditWrites ==
    (/\ ev \in {"hand_spinbox", "hand_slider", "reset_fun", "change_nmodes", "f5",
                "select_ok"}
     /\ ev = "change_nmodes" => changed)
    => (wcount >= 1 /\ written = z)

\* C2: after construction and after every handler, the spinbox of every shown
\* row holds the coefficient of its mode.
C2_SpinboxIsZ ==
    ev \in {"__init__", "hand_spinbox", "hand_slider", "hand_amp", "reset_fun",
            "change_nmodes", "select_ok", "release"}
    => \A i \in Shown : zernike_rows[i].spinbox = z[i]

\* C3: a close request handled while can_close holds writes the settings (the
\* current z, the number of shown rows, control.flat_on) to ~/.zpanel.json and
\* quits; one handled while can_close does not hold writes nothing and does
\* not quit.  self.close() in a file-load button is such a request.
C3_CloseSaves ==
    ev \in {"closeEvent", "f3_choose"}
    => IF can_close
       THEN /\ file = [ZernikePanel |-> [z |-> z, shown_modes |-> Len(zernike_rows)],
                       flat_on |-> flat_on, calibration |-> setcal]
            /\ ev = "closeEvent" => pc = "quit"
       ELSE file = <<>> /\ pc # "quit"

C3_Witness ==
    /\ ev = "closeEvent"
    /\ pc = "quit"
    /\ file.ZernikePanel.z # Zero
    /\ file.ZernikePanel.shown_modes < NK
    /\ file.flat_on = 2

\* C4: save_settings of the panel returns the current z and the current number
\* of rows, and a panel constructed from that dictionary has the same z and
\* the same number of rows.
C4_RoundTrip ==
    pc # "start"
    => LET d == PanelSave(Panel)
           q == PanelInit(d)
       IN  /\ d.z = z
           /\ d.shown_modes = Len(zernike_rows)
           /\ q.z = z
           /\ Len(q.rows) = Len(zernike_rows)

C4_Witness ==
    /\ ev \notin {"__init__", "start"}
    /\ Len(zernike_rows) = 1
    /\ z[NK] # 0
    /\ z[1] # 0

\* C5: between the handling of an acquire and of its release the window is
\* disabled and can_close is false.
C5_DisabledWhileAcquired == acquired => (~enabled /\ ~can_close)

\* C6: a release sets control.u to the returned control's u and z to u2z(),
\* refreshes every row (spinbox at z to two decimals within a range that holds
\* it, slider at its position) and the phase display to that z, does not
\* invoke control.write, and leaves can_close true, the window enabled and the
\* mutex unlocked.
C6_Release ==
    [][ev' = "release"
       => /\ u' = [src |-> "given", vec |-> arg'[1], z |-> <<>>, flat_on |-> 0]
          /\ z' = arg'[2]
          /\ Len(zernike_rows') = Len(zernike_rows)
          /\ \A i \in 1..Len(zernike_rows') :
                /\ Abs(z'[i]) <= zernike_rows'[i].amp
                /\ zernike_rows'[i].spinbox = RoundDiv(z'[i], SpinStep) * SpinStep
                /\ zernike_rows'[i].slider = fto100(z'[i], zernike_rows'[i].amp)
          /\ phi' = z'
          /\ wcount' = 0
          /\ written' = written
          /\ can_close' /\ enabled' /\ ~mutex']_vars

C6_Witness ==
    /\ ev = "release"
    /\ Len(zernike_rows) = NK
    /\ z[NK] = -9 * One
    /\ zernike_rows[NK].amp = 9 * One
    /\ written # z

\* C7: after construction and after every edit of the 'shown modes' field the
\* number of rows is nmodes and 1 <= nmodes <= nk.
C7_NmodesInRange ==
    pc # "start" => (Len(zernike_rows) = nmodes /\ 1 <= nmodes /\ nmodes <= NK)

\* C8: with no calibration on the command line (and none stored), the file
\* chosen in the dialog is the calibration that is queried, and cancelling the
\* dialog exits before any query.
C8_ChosenIsQueried ==
    (ev \in {"load_settings", "new_zernike_window"} /\ chosen # "-")
    => IF chosen = "" THEN pc = "exit" /\ queried = "-"
                      ELSE queried = chosen

====
